---- MODULE Spec2Model ----
(***************************************************************************)
(* Model of the Telegram ticket bot: the webhook handler of api/index.py   *)
(* and the scheduled report of api/hourly_report.py.                       *)
(*                                                                         *)
(* Text is modelled as a sequence of one-character strings, so that len(), *)
(* split(), upper(), strip(), the identifier pattern and the HTML escaping *)
(* are computed character by character.  A code point outside ASCII is one *)
(* element named by its code point ("U+23F0").                             *)
(*                                                                         *)
(* Three specifications share the module: SpecChunk applies                *)
(* send_chunked_message to bounded texts, SpecPost is the process serving  *)
(* api/index.py, SpecReport the process serving api/hourly_report.py.      *)
(***************************************************************************)
EXTENDS Integers, Sequences, FiniteSets, TLC

VARIABLES
    text,        \* send_chunked_message: the text argument
    chunk_size,  \* send_chunked_message: the chunk_size argument
    attempts,    \* the send_message calls of the current call or invocation
    status,      \* "ready" / "idle", "pending", "returned", "raised"
    env,         \* the process environment (os.environ)
    loaded,      \* "no", "yes", "failed": the import of the module
    gc,          \* the module-level sheets client: "unbound", "client", "None"
    auth_runs,   \* how often the module-level credential loading ran
    request,     \* the webhook update (or cron tick) being handled
    sheet,       \* what the invocation read from the sheet service
    contacted,   \* whether the invocation called the sheet service
    unique_ids,  \* do_POST: unique_ids
    replies,     \* do_POST: replies
    listed,      \* generate_and_send_report: the rows of df_sorted
    response     \* the HTTP status sent back to the trigger, "none" if none

chunkVars == <<text, chunk_size>>

processVars == <<env, loaded, gc, auth_runs>>

invocationVars == <<request, sheet, contacted, unique_ids, replies, listed, response>>

vars == <<text, chunk_size, attempts, status, env, loaded, gc, auth_runs,
          request, sheet, contacted, unique_ids, replies, listed, response>>

-----------------------------------------------------------------------------
(* Bounds of the model. *)

MaxLen == 6         \* longest text handed to send_chunked_message
MaxChunk == 3       \* largest chunk_size handed to send_chunked_message
MaxWords == 3       \* most words of an inbound message text
MaxRows == 2        \* most rows of the sheet read by do_POST
MaxReportRows == 2  \* most rows of the sheet read by the report

-----------------------------------------------------------------------------
(* Characters and strings. *)

LF == "\n"

Lowers == <<"a", "b", "c", "d", "e", "f", "g", "h", "i", "j", "k", "l", "m", "n",
      "o", "p", "q", "r", "s", "t", "u", "v", "w", "x", "y", "z">>

Uppers == <<"A", "B", "C", "D", "E", "F", "G", "H", "I", "J", "K", "L", "M", "N",
      "O", "P", "Q", "R", "S", "T", "U", "V", "W", "X", "Y", "Z">>

Digits == <<"0", "1", "2", "3", "4", "5", "6", "7", "8", "9">>

\* the ASCII characters the model uses, in code point order
Ascii == <<LF, " ", "&", "'", ",", ".", ":">> \o Digits \o <<"<", ">">>
         \o Uppers \o <<"_">> \o Lowers \o <<"|">>

RECURSIVE SeqsUpTo(_, _)
SeqsUpTo(S, n) ==
    IF n = 0 THEN {<<>>}
    ELSE LET shorter == SeqsUpTo(S, n - 1)
         IN  shorter \cup {Append(s, c) : s \in {x \in shorter : Len(x) = n - 1}, c \in S}

Drop(s, n) == SubSeq(s, n + 1, Len(s))

\* index of the first occurrence of c in s at or after i, 0 when there is none
RECURSIVE IndexOf(_, _, _)
IndexOf(s, c, i) ==
    IF i > Len(s) THEN 0
    ELSE IF s[i] = c THEN i
    ELSE IndexOf(s, c, i + 1)

Contains(s, c) == IndexOf(s, c, 1) # 0

CodePoint(c) == IndexOf(Ascii, c, 1)

LowerSet == {Lowers[i] : i \in 1..Len(Lowers)}

UpperSet == {Uppers[i] : i \in 1..Len(Uppers)}

DigitSet == {Digits[i] : i \in 1..Len(Digits)}

IsDigit(c) == c \in DigitSet

\* \w of the re module
IsWordChar(c) == c \in LowerSet \/ c \in UpperSet \/ c \in DigitSet \/ c = "_"

IsSpace(c) == c \in {" ", LF}

\* the upper case of each lower case letter, and the reverse
UpperOf ==
    ("a" :> "A") @@
    ("b" :> "B") @@
    ("c" :> "C") @@
    ("d" :> "D") @@
    ("e" :> "E") @@
    ("f" :> "F") @@
    ("g" :> "G") @@
    ("h" :> "H") @@
    ("i" :> "I") @@
    ("j" :> "J") @@
    ("k" :> "K") @@
    ("l" :> "L") @@
    ("m" :> "M") @@
    ("n" :> "N") @@
    ("o" :> "O") @@
    ("p" :> "P") @@
    ("q" :> "Q") @@
    ("r" :> "R") @@
    ("s" :> "S") @@
    ("t" :> "T") @@
    ("u" :> "U") @@
    ("v" :> "V") @@
    ("w" :> "W") @@
    ("x" :> "X") @@
    ("y" :> "Y") @@
    ("z" :> "Z")

LowerOf ==
    ("A" :> "a") @@
    ("B" :> "b") @@
    ("C" :> "c") @@
    ("D" :> "d") @@
    ("E" :> "e") @@
    ("F" :> "f") @@
    ("G" :> "g") @@
    ("H" :> "h") @@
    ("I" :> "i") @@
    ("J" :> "j") @@
    ("K" :> "k") @@
    ("L" :> "l") @@
    ("M" :> "m") @@
    ("N" :> "n") @@
    ("O" :> "o") @@
    ("P" :> "p") @@
    ("Q" :> "q") @@
    ("R" :> "r") @@
    ("S" :> "s") @@
    ("T" :> "t") @@
    ("U" :> "u") @@
    ("V" :> "v") @@
    ("W" :> "w") @@
    ("X" :> "x") @@
    ("Y" :> "y") @@
    ("Z" :> "z")

UpperChar(c) == IF c \in LowerSet THEN UpperOf[c] ELSE c

LowerChar(c) == IF c \in UpperSet THEN LowerOf[c] ELSE c

\* str.upper(), str.lower()
Upper(s) == [i \in 1..Len(s) |-> UpperChar(s[i])]

Lower(s) == [i \in 1..Len(s) |-> LowerChar(s[i])]

\* str.strip()
RECURSIVE LStrip(_)
LStrip(s) == IF Len(s) > 0 /\ IsSpace(s[1]) THEN LStrip(Tail(s)) ELSE s

RECURSIVE RStrip(_)
RStrip(s) ==
    IF Len(s) > 0 /\ IsSpace(s[Len(s)]) THEN RStrip(SubSeq(s, 1, Len(s) - 1)) ELSE s

Strip(s) == RStrip(LStrip(s))

\* str.replace(c, by) for a one-character c
RECURSIVE ReplaceFrom(_, _, _, _)
ReplaceFrom(s, c, by, i) ==
    IF i > Len(s) THEN <<>>
    ELSE (IF s[i] = c THEN by ELSE <<s[i]>>) \o ReplaceFrom(s, c, by, i + 1)

Replace(s, c, by) == IF Contains(s, c) THEN ReplaceFrom(s, c, by, 1) ELSE s

\* text.split('\n')
RECURSIVE SplitLines(_)
SplitLines(t) ==
    LET i == IndexOf(t, LF, 1)
    IN  IF i = 0 THEN <<t>>
        ELSE <<SubSeq(t, 1, i - 1)>> \o SplitLines(Drop(t, i))

\* sep.join(parts)
RECURSIVE JoinWith(_, _)
JoinWith(sep, parts) ==
    IF Len(parts) = 0 THEN <<>>
    ELSE IF Len(parts) = 1 THEN parts[1]
    ELSE parts[1] \o sep \o JoinWith(sep, Tail(parts))

\* the order of Python's str comparison
RECURSIVE StrLess(_, _)
StrLess(a, b) ==
    IF Len(b) = 0 THEN FALSE
    ELSE IF Len(a) = 0 THEN TRUE
    ELSE IF a[1] = b[1] THEN StrLess(Tail(a), Tail(b))
    ELSE CodePoint(a[1]) < CodePoint(b[1])

\* sorted(S) for a set of strings
RECURSIVE SortedStrs(_)
SortedStrs(S) ==
    IF S = {} THEN <<>>
    ELSE LET m == CHOOSE x \in S : \A y \in S \ {x} : StrLess(x, y)
         IN  <<m>> \o SortedStrs(S \ {m})

\* str(n) and the parse of a decimal numeral
RECURSIVE NatToStr(_)
NatToStr(n) ==
    IF n < 10 THEN <<Digits[n + 1]>>
    ELSE NatToStr(n \div 10) \o <<Digits[(n % 10) + 1]>>

RECURSIVE StrToNat(_)
StrToNat(s) ==
    IF Len(s) = 0 THEN 0
    ELSE 10 * StrToNat(SubSeq(s, 1, Len(s) - 1)) + (IndexOf(Digits, s[Len(s)], 1) - 1)

IsNumeral(s) == Len(s) > 0 /\ \A i \in 1..Len(s) : IsDigit(s[i])

-----------------------------------------------------------------------------
(* send_message: requests.post either returns (whatever the HTTP status of *)
(* the reply, which nobody reads) or raises on a transport failure.        *)

Returning == {"ok", "rejected"}

SendOutcomes == Returning \cup {"raise"}

\* the calls made when `texts` are sent in order and `outs` are the
\* outcomes: the first raising call is the last one made
RECURSIVE SendAll(_, _, _)
SendAll(chat, texts, outs) ==
    IF Len(texts) = 0 THEN <<>>
    ELSE LET call == [chat_id |-> chat, text |-> texts[1], outcome |-> outs[1]]
         IN  IF outs[1] = "raise" THEN <<call>>
             ELSE <<call>> \o SendAll(chat, Tail(texts), Tail(outs))

Raised(calls) == \E i \in 1..Len(calls) : calls[i].outcome = "raise"

\* str(e) of the exception requests.post raises
SendError == <<"s", "e", "n", "d", " ", "f", "a", "i", "l", "e", "d">>

-----------------------------------------------------------------------------
(* send_chunked_message *)

FitsWhole(t, M) == Len(t) <= M

OverflowsNoSeparator(cur, line, M) == Len(cur) + Len(line) > M

Overflows(cur, line, M) == Len(cur) + Len(line) + 1 > M

\* the for loop: `sent` are the texts flushed so far, `cur` is current_chunk
RECURSIVE ChunkLoop(_, _, _, _, _)
ChunkLoop(lines, i, cur, M, sent) ==
    IF i > Len(lines) THEN [sent |-> sent, current_chunk |-> cur]
    ELSE IF Overflows(cur, lines[i], M)
         THEN ChunkLoop(lines, i + 1, lines[i], M, Append(sent, cur))
         ELSE ChunkLoop(lines, i + 1,
                        IF cur # <<>> THEN cur \o <<LF>> \o lines[i] ELSE lines[i],
                        M, sent)

\* the texts send_chunked_message passes to send_message when no call raises
ChunkedTexts(t, M) ==
    IF FitsWhole(t, M) THEN <<t>>
    ELSE LET r == ChunkLoop(SplitLines(t), 1, <<>>, M, <<>>)
         IN  IF r.current_chunk # <<>> THEN Append(r.sent, r.current_chunk)
             ELSE r.sent

DefaultChunkSize == 3500

UserChat == "user_chat"

AdminChat == "admin_chat"

NoChat == "None"

-----------------------------------------------------------------------------
(* The environment, the sheet service and the values the processes start  *)
(* from.                                                                   *)

\* a cell of get_all_records(): a string, or a number where the cell holds one
StrCell(s) == [t |-> "str", v |-> s]

IntCell(n) == [t |-> "int", v |-> NatToStr(n)]

\* str(value)
CellStr(c) == c.v

NoSheet == [up |-> FALSE, header |-> <<>>, rows |-> <<>>]

NoRequest == [kind |-> "none", chat_id |-> NoChat, text |-> <<>>]

\* GOOGLE_CREDENTIALS_JSON: unset, not JSON, JSON that is no service account
\* info, or valid
CredKinds == {"unset", "not_json", "bad_info", "valid"}

Envs == [creds : CredKinds, bot_token : BOOLEAN, spreadsheet_id : BOOLEAN,
         my_chat_id : BOOLEAN]

IdleInvocation ==
    /\ attempts = <<>>
    /\ request = NoRequest
    /\ sheet = NoSheet
    /\ contacted = FALSE
    /\ unique_ids = <<>>
    /\ replies = <<>>
    /\ listed = <<>>
    /\ response = "none"

NoProcess ==
    /\ env = [creds |-> "valid", bot_token |-> TRUE, spreadsheet_id |-> TRUE,
              my_chat_id |-> TRUE]
    /\ loaded = "no"
    /\ gc = "unbound"
    /\ auth_runs = 0

ChunkTexts == SeqsUpTo({"a", "b", LF}, MaxLen)

InitChunk ==
    /\ text \in ChunkTexts
    /\ chunk_size \in 0..MaxChunk
    /\ status = "ready"
    /\ IdleInvocation
    /\ NoProcess

SendChunkedMessage ==
    /\ status = "ready"
    /\ LET texts == ChunkedTexts(text, chunk_size)
       IN  \E outs \in [1..Len(texts) -> SendOutcomes] :
             /\ attempts' = SendAll(UserChat, texts, outs)
             /\ status' = IF Raised(attempts') THEN "raised" ELSE "returned"
    /\ UNCHANGED <<chunkVars, processVars, invocationVars>>

NextChunk == SendChunkedMessage

SpecChunk == InitChunk /\ [][NextChunk]_vars

-----------------------------------------------------------------------------
(* Module-level credential loading. *)

\* what json.loads / Credentials.from_service_account_info raise
CredentialError(creds) ==
    CASE creds = "unset" -> "TypeError"
      [] creds = "not_json" -> "JSONDecodeError"
      [] creds = "bad_info" -> "ValueError"
      [] OTHER -> "none"

\* except (json.JSONDecodeError, TypeError)
IndexCaught == {"JSONDecodeError", "TypeError"}

\* except Exception
ReportCaught == {"JSONDecodeError", "TypeError", "ValueError"}

LoadCredentials(caught) ==
    /\ loaded = "no"
    /\ auth_runs' = auth_runs + 1
    /\ LET e == CredentialError(env.creds)
       IN  IF e = "none" THEN gc' = "client" /\ loaded' = "yes"
           ELSE IF e \in caught THEN gc' = "None" /\ loaded' = "yes"
           ELSE gc' = "unbound" /\ loaded' = "failed"
    /\ UNCHANGED <<chunkVars, attempts, status, env, invocationVars>>

-----------------------------------------------------------------------------
(* get_sheet_as_dataframe *)

NotAuthorized == <<"G", "o", "o", "g", "l", "e", " ", "S", "h", "e", "e", "t", "s", " ",
      "c", "l", "i", "e", "n", "t", " ", "i", "s", " ", "n", "o", "t",
      " ", "a", "u", "t", "h", "o", "r", "i", "z", "e", "d", ".">>

\* str(e) of a failure of the sheet service
SheetError == <<"s", "h", "e", "e", "t", " ", "u", "n", "a", "v", "a", "i", "l", "a",
      "b", "l", "e">>

\* pd.DataFrame(sheet.get_all_records()) with the column names stripped and
\* lowercased; a sheet without data rows gives no records and no columns
DataFrameOf(sh) ==
    IF Len(sh.rows) = 0 THEN [columns |-> <<>>, rows |-> <<>>]
    ELSE [columns |-> [i \in 1..Len(sh.header) |-> Lower(Strip(sh.header[i]))],
          rows |-> sh.rows]

GetSheetAsDataframe(handle, sh) ==
    IF handle # "client"
    THEN [ok |-> FALSE, contacted |-> FALSE, error |-> NotAuthorized,
          df |-> DataFrameOf(NoSheet)]
    ELSE IF ~sh.up
    THEN [ok |-> FALSE, contacted |-> TRUE, error |-> SheetError,
          df |-> DataFrameOf(NoSheet)]
    ELSE [ok |-> TRUE, contacted |-> TRUE, error |-> <<>>, df |-> DataFrameOf(sh)]

ColIndex(df, name) == IndexOf(df.columns, name, 1)

HasColumn(df, name) == ColIndex(df, name) # 0

\* row.get(name, default)
RowGet(df, row, name, default) ==
    IF HasColumn(df, name) THEN row[ColIndex(df, name)] ELSE default

NaN == [t |-> "nan", v |-> <<"n", "a", "n">>]

-----------------------------------------------------------------------------
(* api/index.py: format_incident_details *)

Esc(s) ==
    Replace(Replace(Replace(s, "&", <<"&", "a", "m", "p", ";">>), "<", <<"&", "l", "t", ";">>), ">", <<"&", "g", "t", ";">>)

ColIncident == <<"i", "n", "c", "i", "d", "e", "n", "t">>

DetailPrefix == <<"U+F8FF", "U+00FC", "U+00EC", "U+00D1", " ", "D", "e", "t", "a", "i",
      "l", " ", "T", "i", "c", "k", "e", "t", ":", " ", "<", "c", "o",
      "d", "e", ">">>

CodeClose == <<"<", "/", "c", "o", "d", "e", ">">>

FieldMap ==
    <<[label |-> <<"U+201A", "U+00C4", "U+00A2", " ", "C", "o", "n", "t", "a", "c", "t",
             " ", "N", "a", "m", "e">>,
       col |-> <<"c", "o", "n", "t", "a", "c", "t", " ", "n", "a", "m", "e">>],
      [label |-> <<"U+201A", "U+00C4", "U+00A2", " ", "N", "o", ".", " ", "H", "P">>,
       col |-> <<"n", "o", ".", " ", "h", "p">>],
      [label |-> <<"U+201A", "U+00C4", "U+00A2", " ", "U", "s", "e", "r">>,
       col |-> <<"u", "s", "e", "r">>],
      [label |-> <<"U+201A", "U+00C4", "U+00A2", " ", "C", "u", "s", "t", "o", "m", "e",
             "r", " ", "T", "y", "p", "e">>,
       col |-> <<"c", "u", "s", "t", "o", "m", "e", "r", " ", "t", "y", "p", "e">>],
      [label |-> <<"U+201A", "U+00C4", "U+00A2", " ", "D", "A", "T", "E", "K">>,
       col |-> <<"d", "a", "t", "e", "k">>],
      [label |-> <<"U+201A", "U+00C4", "U+00A2", " ", "S", "T", "O">>,
       col |-> <<"s", "t", "o">>],
      [label |-> <<"U+201A", "U+00C4", "U+00A2", " ", "S", "t", "a", "t", "u", "s", " ",
             "S", "u", "g", "a", "r">>,
       col |-> <<"s", "t", "a", "t", "u", "s", " ", "s", "u", "g", "a", "r">>],
      [label |-> <<"U+201A", "U+00C4", "U+00A2", " ", "P", "r", "o", "s", "e", "s", " ",
             "T", "T", "R", " ", "4", " ", "J", "a", "m">>,
       col |-> <<"p", "r", "o", "s", "e", "s", " ", "t", "t", "r", " ", "4", " ", "j",
      "a", "m">>],
      [label |-> <<"U+201A", "U+00C4", "U+00A2", " ", "S", "N">>,
       col |-> <<"s", "n">>]>>

\* the lines of the fields that are present, not NaN and not ''
RECURSIVE FieldLines(_, _, _)
FieldLines(df, row, k) ==
    IF k > Len(FieldMap) THEN <<>>
    ELSE LET c == ColIndex(df, FieldMap[k].col)
         IN  (IF c # 0 /\ row[c].t # "nan" /\ row[c].v # <<>>
              THEN <<FieldMap[k].label \o <<":", " ">> \o Esc(CellStr(row[c]))>>
              ELSE <<>>)
             \o FieldLines(df, row, k + 1)

FormatIncidentDetails(df, row) ==
    JoinWith(<<LF>>,
        <<DetailPrefix
            \o Esc(CellStr(RowGet(df, row, ColIncident, StrCell(<<"N", "/", "A">>))))
            \o CodeClose>>
        \o FieldLines(df, row, 1))

-----------------------------------------------------------------------------
(* api/index.py: do_POST *)

RECURSIVE DigitsEnd(_, _)
DigitsEnd(t, k) ==
    IF k < Len(t) /\ IsDigit(t[k + 1]) THEN DigitsEnd(t, k + 1) ELSE k

\* where a match of \binc\d+\b (re.IGNORECASE) starting at i ends, 0 if none
MatchEnd(t, i) ==
    IF i + 3 > Len(t) THEN 0
    ELSE IF i > 1 /\ IsWordChar(t[i - 1]) THEN 0
    ELSE IF Lower(SubSeq(t, i, i + 2)) # <<"i", "n", "c">> THEN 0
    ELSE IF ~IsDigit(t[i + 3]) THEN 0
    ELSE LET j == DigitsEnd(t, i + 3)
         IN  IF j = Len(t) \/ ~IsWordChar(t[j + 1]) THEN j ELSE 0

\* re.findall
RECURSIVE FindAll(_, _)
FindAll(t, i) ==
    IF i > Len(t) THEN <<>>
    ELSE LET j == MatchEnd(t, i)
         IN  IF j > 0 THEN <<SubSeq(t, i, j)>> \o FindAll(t, j + 1)
             ELSE FindAll(t, i + 1)

UniqueIdsCaseSensitive(incident_ids) ==
    LET ids == SortedStrs({incident_ids[k] : k \in 1..Len(incident_ids)})
    IN  [k \in 1..Len(ids) |-> Upper(ids[k])]

\* sorted(list(set(id.upper() for id in incident_ids)))
UniqueIds(incident_ids) ==
    SortedStrs({Upper(incident_ids[k]) : k \in 1..Len(incident_ids)})

\* df['incident'].str.upper(): NaN where the cell is no string
UpperIncident(df) ==
    LET c == ColIndex(df, ColIncident)
    IN  [df EXCEPT !.rows =
            [r \in 1..Len(df.rows) |->
                [df.rows[r] EXCEPT ![c] =
                    IF df.rows[r][c].t = "str"
                    THEN StrCell(Upper(df.rows[r][c].v)) ELSE NaN]]]

\* the .str accessor raises on a column that holds no strings
StrAccessorRaises(df, col) ==
    \A r \in 1..Len(df.rows) : df.rows[r][ColIndex(df, col)].t = "int"

\* the position of the first row of df[df['incident'] == incident_id], 0 if empty
RECURSIVE FirstMatch(_, _, _)
FirstMatch(df, incident_id, r) ==
    IF r > Len(df.rows) THEN 0
    ELSE IF df.rows[r][ColIndex(df, ColIncident)] = StrCell(incident_id) THEN r
    ELSE FirstMatch(df, incident_id, r + 1)

NotFoundLine(incident_id) == <<"U+201A", "U+00F9", "U+00E5", " ", "T", "i", "d", "a", "k", " ", "d",
      "i", "t", "e", "m", "u", "k", "a", "n", ":", " ", "<", "c", "o",
      "d", "e", ">">> \o incident_id \o CodeClose

ReplyFor(df, incident_id) ==
    IF FirstMatch(df, incident_id, 1) # 0
    THEN FormatIncidentDetails(df, df.rows[FirstMatch(df, incident_id, 1)])
    ELSE NotFoundLine(incident_id)

\* str(e) of what int(...), json.loads and update.get raise on a bad body
BadRequestError(kind) ==
    CASE kind = "no_length" -> <<"i", "n", "t", "(", ")", " ", "a", "r", "g", "u", "m", "e", "n", "t">>
      [] kind = "not_json" -> <<"E", "x", "p", "e", "c", "t", "i", "n", "g", " ", "v", "a", "l", "u",
      "e">>
      [] OTHER -> <<"n", "o", " ", "a", "t", "t", "r", "i", "b", "u", "t", "e", " ", "'",
      "g", "e", "t", "'">>

KeyErrorIncident == <<"'", "i", "n", "c", "i", "d", "e", "n", "t", "'">>

StrAccessorError == <<"C", "a", "n", " ", "o", "n", "l", "y", " ", "u", "s", "e", " ", ".",
      "s", "t", "r", " ", "a", "c", "c", "e", "s", "s", "o", "r">>

BotErrorPrefix == <<"B", "o", "t", " ", "E", "r", "r", "o", "r", ":", " ">>

\* the except block and what follows it: the error goes to MY_CHAT_ID when
\* that is set; a send_message that raises there leaves do_POST
PostExcept(sofar, error, adminOut) ==
    LET call == [chat_id |-> AdminChat, text |-> BotErrorPrefix \o error,
                 outcome |-> adminOut]
    IN  IF env.my_chat_id /\ adminOut = "raise"
        THEN [attempts |-> Append(sofar, call), response |-> "none",
              status |-> "raised"]
        ELSE [attempts |-> IF env.my_chat_id THEN Append(sofar, call) ELSE sofar,
              response |-> "200", status |-> "returned"]

\* self.send_response(200) after a body that raised nothing
PostAck(sofar) ==
    [attempts |-> sofar, response |-> "200", status |-> "returned"]

\* whether do_POST gets as far as fetching the sheet
ReachesSheet(req) ==
    /\ req.kind = "update"
    /\ req.chat_id # NoChat
    /\ FindAll(Strip(req.text), 1) # <<>>

ReplySeparator == <<LF, LF>>

PostStage(stage, error, did, ids, reps) ==
    [stage |-> stage, error |-> error, contacted |-> did, unique_ids |-> ids,
     replies |-> reps]

\* the try block of do_POST up to send_chunked_message, on update `req` with
\* `sh` what the sheet service holds: "error" when a statement raised,
\* "early" on the early returns, "reply" with the replies to send
PostTry(req, sh) ==
    IF req.kind # "update"
    THEN PostStage("error", BadRequestError(req.kind), FALSE, <<>>, <<>>)
    ELSE IF req.chat_id = NoChat \/ Strip(req.text) = <<>>
    THEN PostStage("early", <<>>, FALSE, <<>>, <<>>)
    ELSE IF FindAll(Strip(req.text), 1) = <<>>
    THEN PostStage("early", <<>>, FALSE, <<>>, <<>>)
    ELSE
      LET ids == UniqueIds(FindAll(Strip(req.text), 1))
          got == GetSheetAsDataframe(gc, sh)
      IN  IF ~got.ok
          THEN PostStage("error", got.error, got.contacted, ids, <<>>)
          ELSE IF ~HasColumn(got.df, ColIncident)
          THEN PostStage("error", KeyErrorIncident, TRUE, ids, <<>>)
          ELSE IF StrAccessorRaises(got.df, ColIncident)
          THEN PostStage("error", StrAccessorError, TRUE, ids, <<>>)
          ELSE
            LET df == UpperIncident(got.df)
            IN  PostStage("reply", <<>>, TRUE, ids,
                          [k \in 1..Len(ids) |-> ReplyFor(df, ids[k])])

Words == {<<"i", "n", "c", "2">>, <<"I", "N", "C", "2">>, <<"x", "i", "n", "c", "1", ",", "I", "n", "c", "1", "0">>}

\* messages of up to MaxWords words, and one that names no incident
InboundTexts ==
    {JoinWith(<<" ">>, ws) : ws \in SeqsUpTo(Words, MaxWords)}
    \cup {<<" ", "i", "n", "c", " ", "7", " ">>}

Requests ==
    {[kind |-> k, chat_id |-> NoChat, text |-> <<>>] :
        k \in {"no_length", "not_json", "not_object"}}
    \cup [kind : {"update"}, chat_id : {NoChat, UserChat}, text : InboundTexts]

PostRows ==
    {<<i, s>> : i \in {StrCell(<<"I", "N", "C", "7">>), StrCell(<<"i", "n", "c", "2">>)},
                s \in {StrCell(<<>>), StrCell(<<"A", "&", "B", "<", "c", ">">>)}}

SheetDown == [up |-> FALSE, header |-> <<>>, rows |-> <<>>]

\* sheets with the columns Incident and STO, and one without an incident column
PostSheets ==
    [up : {TRUE}, header : {<<<<" ", "I", "n", "c", "i", "d", "e", "n", "t", " ">>, <<"S", "T", "O">>>>},
     rows : SeqsUpTo(PostRows, MaxRows)]
    \cup {[up |-> TRUE, header |-> <<<<"T", "i", "c", "k", "e", "t">>, <<"s", "t", "o">>>>,
           rows |-> <<<<StrCell(<<"I", "N", "C", "7">>), StrCell(<<>>)>>>>]}

InitProcess(envs) ==
    /\ text = <<>>
    /\ chunk_size = DefaultChunkSize
    /\ status = "idle"
    /\ env \in envs
    /\ loaded = "no"
    /\ gc = "unbound"
    /\ auth_runs = 0
    /\ IdleInvocation

LoadIndex == LoadCredentials(IndexCaught)

\* the platform hands a webhook call to the handler
DeliverUpdate ==
    /\ loaded = "yes"
    /\ status = "idle"
    /\ \E req \in Requests : request' = req
    /\ status' = "pending"
    /\ UNCHANGED <<chunkVars, processVars, attempts, sheet, contacted,
                   unique_ids, replies, listed, response>>

\* a SPREADSHEET_ID that is not set opens no spreadsheet
SheetStates(all) ==
    IF env.spreadsheet_id THEN all \cup {SheetDown} ELSE {SheetDown}

\* a BOT_TOKEN that is not set is refused by the API, if it is reached
OutcomesNow == IF env.bot_token THEN SendOutcomes ELSE {"rejected", "raise"}

\* the outcome of do_POST: its sends, its response, how it ended
PostEnds(r) ==
    /\ attempts' = r.attempts
    /\ response' = r.response
    /\ status' = r.status

DoPost ==
    /\ loaded = "yes"
    /\ status = "pending"
    /\ \E sh \in (IF gc = "client" /\ ReachesSheet(request)
                  THEN SheetStates(PostSheets) ELSE {NoSheet}) :
       \E t \in {PostTry(request, sh)} :
          LET chunks == ChunkedTexts(JoinWith(ReplySeparator, t.replies),
                                     DefaultChunkSize)
          IN  /\ contacted' = t.contacted
              /\ sheet' = IF t.contacted THEN sh ELSE NoSheet
              /\ unique_ids' = t.unique_ids
              /\ replies' = t.replies
              /\ IF t.stage = "early" THEN PostEnds(PostAck(<<>>))
                 ELSE IF t.stage = "error"
                 THEN \E adminOut \in OutcomesNow :
                         PostEnds(PostExcept(<<>>, t.error, adminOut))
                 ELSE \E outs \in [1..Len(chunks) -> OutcomesNow] :
                         LET calls == SendAll(request.chat_id, chunks, outs)
                         IN  IF Raised(calls)
                             THEN \E adminOut \in OutcomesNow :
                                     PostEnds(PostExcept(calls, SendError, adminOut))
                             ELSE PostEnds(PostAck(calls))
    /\ UNCHANGED <<chunkVars, processVars, request, listed>>

\* the connection of the finished invocation closes; the process waits
Finish ==
    /\ status \in {"returned", "raised"}
    /\ loaded = "yes"
    /\ status' = "idle"
    /\ attempts' = <<>>
    /\ request' = NoRequest
    /\ sheet' = NoSheet
    /\ contacted' = FALSE
    /\ unique_ids' = <<>>
    /\ replies' = <<>>
    /\ listed' = <<>>
    /\ response' = "none"
    /\ UNCHANGED <<chunkVars, processVars>>

NextPost == LoadIndex \/ DeliverUpdate \/ DoPost \/ Finish

\* index.py reads neither BOT_TOKEN nor SPREADSHEET_ID before using them
InitPost == InitProcess({e \in Envs : e.bot_token /\ e.spreadsheet_id})

SpecPost == InitPost /\ [][NextPost]_vars

-----------------------------------------------------------------------------
(* api/hourly_report.py: generate_and_send_report and do_GET *)

THRESHOLD_UMUR == 24

ColStatus == <<"s", "t", "a", "t", "u", "s">>

ColUmur == <<"u", "m", "u", "r", " ", "t", "i", "k", "e", "t">>

ColCustomerType == <<"c", "u", "s", "t", "o", "m", "e", "r", " ", "t", "y", "p", "e">>

ColSto == <<"s", "t", "o">>

RequiredCols == <<ColStatus, ColUmur, ColIncident>>

\* the first required column that df lacks, 0 if it has them all
RECURSIVE FirstMissing(_, _)
FirstMissing(df, k) ==
    IF k > Len(RequiredCols) THEN 0
    ELSE IF ~HasColumn(df, RequiredCols[k]) THEN k
    ELSE FirstMissing(df, k + 1)

MissingColumnMessage(col) ==
    <<"E", "r", "r", "o", "r", ":", " ", "C", "o", "l", "u", "m", "n", " ",
      "'">> \o col \o <<"'", " ", "n", "o", "t", " ", "f", "o", "u", "n", "d", " ", "i", "n",
      " ", "s", "p", "r", "e", "a", "d", "s", "h", "e", "e", "t", ".">>

\* df['status'].str.strip().str.upper() == 'OPEN'
StatusIsOpen(df, row) ==
    /\ row[ColIndex(df, ColStatus)].t = "str"
    /\ Upper(Strip(row[ColIndex(df, ColStatus)].v)) = <<"O", "P", "E", "N">>

\* pd.to_numeric(..., errors='coerce'): a number, or NaN
ToNumeric(cell) ==
    IF cell.t = "int" \/ (cell.t = "str" /\ IsNumeral(cell.v))
    THEN [nan |-> FALSE, n |-> StrToNat(cell.v)]
    ELSE [nan |-> TRUE, n |-> 0]

UmurNumeric(df, row) == ToNumeric(row[ColIndex(df, ColUmur)])

AtMostThreshold(x) == ~x.nan /\ x.n <= THRESHOLD_UMUR

\* df_open['umur_numeric'] < THRESHOLD_UMUR: never true of NaN
BelowThreshold(x) == ~x.nan /\ x.n < THRESHOLD_UMUR

\* the positions of the rows of df_filtered, in sheet order
RECURSIVE FilteredRows(_, _)
FilteredRows(df, r) ==
    IF r > Len(df.rows) THEN <<>>
    ELSE (IF StatusIsOpen(df, df.rows[r]) /\ BelowThreshold(UmurNumeric(df, df.rows[r]))
          THEN <<r>> ELSE <<>>)
         \o FilteredRows(df, r + 1)

\* sort_values(by='umur_numeric', ascending=True) with the default sort,
\* which is not stable: any ascending order of the picked rows
SortedOrders(df, picked) ==
    LET n == Len(picked)
        perms == {p \in [1..n -> 1..n] : \A i, j \in 1..n : i # j => p[i] # p[j]}
    IN  {[i \in 1..n |-> picked[p[i]]] :
            p \in {q \in perms :
                     \A i \in 1..(n - 1) :
                        UmurNumeric(df, df.rows[picked[q[i]]]).n
                          <= UmurNumeric(df, df.rows[picked[q[i + 1]]]).n}}

CodeOpen == <<"<", "c", "o", "d", "e", ">">>

\* f"<code>{incident}</code> | {umur} Jam | {cust_type} | {sto}"
ReportRow(df, row) ==
    CodeOpen \o CellStr(RowGet(df, row, ColIncident, StrCell(<<>>)))
    \o CodeClose \o <<" ", "|", " ">>
    \o CellStr(RowGet(df, row, ColUmur, StrCell(<<>>))) \o <<" ", "J", "a", "m", " ", "|", " ">>
    \o CellStr(RowGet(df, row, ColCustomerType, StrCell(<<>>))) \o <<" ", "|", " ">>
    \o CellStr(RowGet(df, row, ColSto, StrCell(<<>>)))

NoTickets == <<"T", "i", "d", "a", "k", " ", "a", "d", "a", " ", "t", "i", "k", "e",
      "t", " ", "y", "a", "n", "g", " ", "m", "e", "m", "e", "n", "u",
      "h", "i", " ", "k", "r", "i", "t", "e", "r", "i", "a", ".">>

\* datetime.now(tz).strftime('%d/%m/%Y %H:%M') at the time of the tick
DtStr == <<"0", "5", "/", "1", "1", "/", "2", "0", "2", "6", " ", "0", "9", ":",
      "0", "0">>

ReportHeader == <<"U+23F0", " ", "L", "a", "p", "o", "r", "a", "n", " ", "T", "i", "k",
      "e", "t", " ", "U+2014", " ">> \o DtStr \o <<LF>>

\* header + "\n" + body
ReportMessage(df, order) ==
    ReportHeader \o <<LF>>
    \o (IF Len(order) = 0 THEN NoTickets
        ELSE JoinWith(<<LF>>, [i \in 1..Len(order) |-> ReportRow(df, df.rows[order[i]])]))

ReportErrorPrefix == <<"B", "o", "t", " ", "E", "r", "r", "o", "r", " ", "d", "u", "r", "i",
      "n", "g", " ", "h", "o", "u", "r", "l", "y", " ", "r", "e", "p",
      "o", "r", "t", ":", " ">>

Configured == env.bot_token /\ env.spreadsheet_id /\ env.my_chat_id

ReportStage(stage, error, did, df, picked) ==
    [stage |-> stage, error |-> error, contacted |-> did, df |-> df,
     picked |-> picked]

\* generate_and_send_report up to its first send_message: "skip" when the
\* environment is incomplete, "error" when a statement raised, "missing"
\* when a required column is absent, "report" with the rows that passed
ReportTry(sh) ==
    IF ~Configured
    THEN ReportStage("skip", <<>>, FALSE, DataFrameOf(NoSheet), <<>>)
    ELSE
      LET got == GetSheetAsDataframe(gc, sh)
      IN  IF ~got.ok
          THEN ReportStage("error", got.error, got.contacted, got.df, <<>>)
          ELSE IF FirstMissing(got.df, 1) # 0
          THEN ReportStage("missing",
                           MissingColumnMessage(RequiredCols[FirstMissing(got.df, 1)]),
                           TRUE, got.df, <<>>)
          ELSE IF StrAccessorRaises(got.df, ColStatus)
          THEN ReportStage("error", StrAccessorError, TRUE, got.df, <<>>)
          ELSE ReportStage("report", <<>>, TRUE, got.df, FilteredRows(got.df, 1))

\* the except block of generate_and_send_report; a send_message that raises
\* there leaves generate_and_send_report and do_GET
ReportExcept(sofar, error, adminOut) ==
    LET call == [chat_id |-> AdminChat, text |-> ReportErrorPrefix \o error,
                 outcome |-> adminOut]
    IN  [attempts |-> Append(sofar, call),
         response |-> IF adminOut = "raise" THEN "none" ELSE "200",
         status |-> IF adminOut = "raise" THEN "raised" ELSE "returned"]

\* send_message inside the try block, then the rest of do_GET
ReportSend(message, out, adminOut) ==
    LET call == [chat_id |-> AdminChat, text |-> message, outcome |-> out]
    IN  IF out = "raise" THEN ReportExcept(<<call>>, SendError, adminOut)
        ELSE [attempts |-> <<call>>, response |-> "200", status |-> "returned"]

ReportCells ==
    {<<i, s, u, StrCell(<<"J", "1">>)>> :
        i \in {StrCell(<<"I", "N", "C", "1">>), StrCell(<<"I", "<", "2">>)},
        s \in {StrCell(<<"O", "P", "E", "N">>), StrCell(<<" ", "o", "p", "e", "n", " ">>), StrCell(<<"C", "l", "o", "s", "e", "d">>)},
        u \in {IntCell(3), IntCell(24), StrCell(<<"7">>), StrCell(<<"x">>)}}

\* sheets with the columns of the report, one without 'umur tiket', and one
\* whose status column holds numbers only
ReportSheets ==
    [up : {TRUE},
     header : {<<<<"I", "n", "c", "i", "d", "e", "n", "t">>, <<" ", "S", "t", "a", "t", "u", "s", " ">>, <<"U", "m", "u", "r", " ", "T", "i", "k", "e", "t">>, <<"S", "T", "O">>>>},
     rows : SeqsUpTo(ReportCells, MaxReportRows)]
    \cup {[up |-> TRUE,
           header |-> <<<<"I", "n", "c", "i", "d", "e", "n", "t">>, <<"S", "t", "a", "t", "u", "s">>, <<"U", "m", "u", "r">>, <<"C", "u", "s", "t", "o", "m", "e", "r", " ", "T", "y", "p", "e">>>>,
           rows |-> <<<<StrCell(<<"I", "N", "C", "1">>), StrCell(<<"O", "P", "E", "N">>), IntCell(3),
                        StrCell(<<"J", "1">>)>>>>],
          [up |-> TRUE,
           header |-> <<<<"I", "n", "c", "i", "d", "e", "n", "t">>, <<"S", "t", "a", "t", "u", "s">>, <<"U", "m", "u", "r", " ", "T", "i", "k", "e", "t">>, <<"S", "T", "O">>>>,
           rows |-> <<<<StrCell(<<"I", "N", "C", "1">>), IntCell(1), IntCell(3),
                        StrCell(<<"J", "1">>)>>>>]}

CronRequest == [kind |-> "cron", chat_id |-> NoChat, text |-> <<>>]

InitReport == InitProcess(Envs)

LoadReport == LoadCredentials(ReportCaught)

\* the platform's cron calls the URL
CronTick ==
    /\ loaded = "yes"
    /\ status = "idle"
    /\ request' = CronRequest
    /\ status' = "pending"
    /\ UNCHANGED <<chunkVars, processVars, attempts, sheet, contacted,
                   unique_ids, replies, listed, response>>

GetEnds(r) ==
    /\ attempts' = r.attempts
    /\ response' = r.response
    /\ status' = r.status

DoGet ==
    /\ loaded = "yes"
    /\ status = "pending"
    /\ \E sh \in (IF gc = "client" /\ Configured
                  THEN SheetStates(ReportSheets) ELSE {NoSheet}) :
       \E t \in {ReportTry(sh)} :
          /\ contacted' = t.contacted
          /\ sheet' = IF t.contacted THEN sh ELSE NoSheet
          /\ IF t.stage = "skip"
             THEN /\ listed' = <<>>
                  /\ GetEnds([attempts |-> <<>>, response |-> "200",
                              status |-> "returned"])
             ELSE IF t.stage = "error"
             THEN /\ listed' = <<>>
                  /\ \E adminOut \in OutcomesNow :
                        GetEnds(ReportExcept(<<>>, t.error, adminOut))
             ELSE \E order \in (IF t.stage = "missing" THEN {<<>>}
                                ELSE SortedOrders(t.df, t.picked)) :
                  \E message \in {IF t.stage = "missing" THEN t.error
                                   ELSE ReportMessage(t.df, order)} :
                     /\ listed' = order
                     /\ \E out \in OutcomesNow :
                           \E adminOut \in (IF out = "raise" THEN OutcomesNow
                                            ELSE {out}) :
                              GetEnds(ReportSend(message, out, adminOut))
    /\ UNCHANGED <<chunkVars, processVars, request, unique_ids, replies>>

NextReport == LoadReport \/ CronTick \/ DoGet \/ Finish

SpecReport == InitReport /\ [][NextReport]_vars

-----------------------------------------------------------------------------
(* Properties of send_chunked_message. *)

SentTexts == [i \in 1..Len(attempts) |-> attempts[i].text]

HasLF(t) == IndexOf(t, LF, 1) # 0

IsLineOf(t, T) == \E j \in 1..Len(SplitLines(T)) : SplitLines(T)[j] = t

\* C2: the texts passed to send_message, joined in send order with one
\* newline between consecutive texts, equal the text that was given.
C2_RoundTrip ==
    (status = "returned" /\ chunk_size >= 1)
        => JoinWith(<<LF>>, SentTexts) = text

\* C3: every text passed to send_message is at most chunk_size long, unless
\* it is one whole line of the input that is itself longer than chunk_size;
\* the oversized lines are sent alone, each exactly once, in input order.
C3_ChunkBound ==
    LET Oversized(t) == Len(t) > chunk_size
    IN  /\ \A i \in 1..Len(attempts) :
              \/ Len(attempts[i].text) <= chunk_size
              \/ /\ ~HasLF(attempts[i].text)
                 /\ IsLineOf(attempts[i].text, text)
        /\ status = "returned"
              => SelectSeq(SentTexts, Oversized)
                   = SelectSeq(SplitLines(text), Oversized)

C3_Witness ==
    /\ status = "returned"
    /\ Len(attempts) >= 2
    /\ \E i, j \in 1..Len(attempts) :
          /\ Len(attempts[i].text) > chunk_size
          /\ HasLF(attempts[j].text)
          /\ Len(attempts[j].text) = chunk_size

\* C4: a send attempt is made for every chunk, in order, whatever the
\* outcome of the attempts before it (stated for the calls whose chunks
\* are all non-empty, the chunks a reply is meant to be split into).
C4_EveryChunkAttempted ==
    LET chunks == ChunkedTexts(text, chunk_size)
    IN  (/\ status # "ready"
         /\ chunk_size >= 1
         /\ \A i \in 1..Len(chunks) : chunks[i] # <<>>)
            => SentTexts = chunks

\* C10: for a non-empty text and chunk_size >= 1, send_message is never
\* called with an empty text.
C10_NoEmptySend ==
    (text # <<>> /\ chunk_size >= 1)
        => \A i \in 1..Len(attempts) : attempts[i].text # <<>>

-----------------------------------------------------------------------------
(* Properties of the handlers. *)

Handled == status \in {"returned", "raised"}

\* C1: every invocation of do_POST and of do_GET sends its 200
\* acknowledgment, whatever happened inside it.
C1_AlwaysAcknowledged == Handled => response = "200"

\* the sheet as the invocation read it
FetchedFrame == DataFrameOf(sheet)

Fetched == Handled /\ contacted /\ sheet.up

FirstText == IF Len(attempts) = 0 THEN <<>> ELSE attempts[1].text

\* C5: an empty Dataset, and more generally an empty result of the filter,
\* is reported with the "no tickets" body and not as an error.
C5_EmptyReportedAsNoTickets ==
    (Fetched /\ request.kind = "cron")
        => \A df \in {FetchedFrame} :
              (\/ Len(sheet.rows) = 0
               \/ /\ FirstMissing(df, 1) = 0
                  /\ ~StrAccessorRaises(df, ColStatus)
                  /\ FilteredRows(df, 1) = <<>>)
                 => FirstText = ReportHeader \o <<LF>> \o NoTickets

\* C6: with the required columns present, the report lists a row only if
\* its status is OPEN after trimming and uppercasing and its 'umur tiket'
\* parses as a number below 24; a value that does not parse raises no error
\* (the report is what is sent); the listed rows are in ascending age.
C6_ReportFilter ==
    (/\ Fetched
     /\ request.kind = "cron"
     /\ FirstMissing(FetchedFrame, 1) = 0)
        => \A df \in {FetchedFrame} :
           LET status_of(r) == df.rows[r][ColIndex(df, ColStatus)]
               umur_of(r) == df.rows[r][ColIndex(df, ColUmur)]
               parses(r) == umur_of(r).t = "int" \/ IsNumeral(umur_of(r).v)
               age(r) == StrToNat(umur_of(r).v)
           IN  /\ \A i \in 1..Len(listed) :
                     /\ listed[i] \in 1..Len(df.rows)
                     /\ status_of(listed[i]).t = "str"
                     /\ Upper(Strip(status_of(listed[i]).v)) = <<"O", "P", "E", "N">>
                     /\ parses(listed[i])
                     /\ age(listed[i]) < 24
               /\ \A i, j \in 1..Len(listed) :
                     i < j => listed[i] # listed[j] /\ age(listed[i]) <= age(listed[j])
               /\ (\E r \in 1..Len(df.rows) : status_of(r).t = "str" /\ ~parses(r))
                     => FirstText = ReportMessage(df, listed)

C6_Witness ==
    /\ Fetched
    /\ request.kind = "cron"
    /\ status = "returned"
    /\ Len(sheet.rows) = 2
    /\ FirstMissing(FetchedFrame, 1) = 0
    /\ sheet.rows[1][2] # sheet.rows[2][2]
    /\ Upper(Strip(sheet.rows[1][2].v)) = <<"O", "P", "E", "N">>
    /\ ~IsNumeral(sheet.rows[1][3].v)
    /\ listed = <<2>>
    /\ Len(attempts) = 1

\* C7: the reply holds exactly one block per distinct identifier of the
\* text, identifiers that differ only in case counting once: a detail block
\* when a row has that incident, otherwise the not-found line; the blocks
\* are in ascending order of the uppercased identifier.
C7_OneBlockPerIdentifier ==
    (Handled /\ Len(replies) > 0)
        => \A tokens \in {FindAll(Strip(request.text), 1)}, df \in {FetchedFrame} :
           LET folded == {Upper(tokens[k]) : k \in 1..Len(tokens)}
               has_row(id) ==
                   \E r \in 1..Len(df.rows) :
                      Upper(df.rows[r][ColIndex(df, ColIncident)].v) = id
               detail_head(id) == DetailPrefix \o id \o CodeClose
           IN  /\ Len(replies) = Cardinality(folded)
               /\ Len(unique_ids) = Len(replies)
               /\ {unique_ids[k] : k \in 1..Len(unique_ids)} = folded
               /\ \A i, j \in 1..Len(unique_ids) :
                     i < j => StrLess(unique_ids[i], unique_ids[j])
               /\ \A k \in 1..Len(replies) :
                     IF has_row(unique_ids[k])
                     THEN SplitLines(replies[k])[1] = detail_head(unique_ids[k])
                     ELSE replies[k] = NotFoundLine(unique_ids[k])
               /\ FirstText = JoinWith(<<LF, LF>>, replies)

C7_Witness ==
    /\ status = "returned"
    /\ response = "200"
    /\ LET tokens == FindAll(Strip(request.text), 1)
       IN  /\ Len(tokens) = 3
           /\ \E i, j \in 1..3 : tokens[i] # tokens[j] /\ Upper(tokens[i]) = Upper(tokens[j])
    /\ Len(replies) = 2
    /\ replies[1] = NotFoundLine(unique_ids[1])
    /\ Len(SplitLines(replies[2])) = 2
    /\ Len(attempts) = 1

RECURSIVE Count(_, _, _)
Count(s, c, i) ==
    IF i > Len(s) THEN 0
    ELSE (IF s[i] = c THEN 1 ELSE 0) + Count(s, c, i + 1)

StartsAt(s, i, t) == i + Len(t) - 1 <= Len(s) /\ SubSeq(s, i, i + Len(t) - 1) = t

\* a line whose only '<' and '>' are those of `tags` tags, and whose every
\* '&' starts an entity
OnlyMarkup(line, tags) ==
    /\ Count(line, "<", 1) = tags
    /\ Count(line, ">", 1) = tags
    /\ \A i \in 1..Len(line) :
          line[i] = "&" => \/ StartsAt(line, i, <<"&", "a", "m", "p", ";">>)
                           \/ StartsAt(line, i, <<"&", "l", "t", ";">>)
                           \/ StartsAt(line, i, <<"&", "g", "t", ";">>)

\* C8: the sheet values interpolated into an HTML message have '&', '<' and
\* '>' replaced by their entities, in the detail reply and in the rows of
\* the report: the only markup of a line is its <code>...</code> pair.
C8_SheetValuesEscaped ==
    /\ \A k \in 1..Len(replies) :
          \A lines \in {SplitLines(replies[k])} :
             \A j \in 1..Len(lines) : OnlyMarkup(lines[j], IF j = 1 THEN 2 ELSE 0)
    /\ (Handled /\ request.kind = "cron" /\ Len(listed) > 0)
          => \A lines \in {SplitLines(FirstText)} :
                \A j \in 3..Len(lines) : OnlyMarkup(lines[j], 2)

\* C9: the credential loading runs once; when it fails, for any reason,
\* gc is None and the process serves; an invocation that needs the sheet
\* then fails in get_sheet_as_dataframe without contacting the sheet
\* service.
C9_InitFailureRecorded ==
    /\ auth_runs <= 1
    /\ (loaded # "no" /\ env.creds # "valid") => (loaded = "yes" /\ gc = "None")
    /\ (Handled /\ gc = "None" /\ ReachesSheet(request))
          => /\ ~contacted
             /\ env.my_chat_id => FirstText = BotErrorPrefix \o NotAuthorized

====
